---- MODULE Spec2Model ----
(***************************************************************************)
(* Model of covjsondask.py: get_dask_arrays builds, for every (parameter,  *)
(* tileset) pair of a tiled CoverageJSON document, a dask task graph whose *)
(* tasks call get_tile; the dask engine later executes tasks on demand.    *)
(*                                                                         *)
(* Python strings are sequences of one-character strings, so that          *)
(* concatenation, len() and str.replace are computed and not assumed.      *)
(* A tileShape entry is <<n>> for the integer n and <<>> for JSON null.    *)
(***************************************************************************)
EXTENDS Integers, Sequences, FiniteSets, TLC

VARIABLES
    coverage,     \* the parsed document served at the location (line 50)
    pc,           \* "start", "loop", "done" (get_dask_arrays) or "call", "called"
    idx,          \* position of the (param, tileset) loops of lines 58 and 68
    dask_arrays,  \* the dictionary of line 47, returned at line 128
    built,        \* every (da_key, array) made at line 127, in loop order
    fetched,      \* log of the URLs handed to get_data (line 17)
    server,       \* what the remote end answers for each URL fetched so far
    executions,   \* log of the get_tile calls made and what each gave
    call          \* arguments of a direct get_tile call

vars == <<coverage, pc, idx, dask_arrays, built, fetched, server, executions, call>>

----------------------------------------------------------------------------
(* Bounds of the model *)

MaxExtent == 7
MaxTile == 5
MaxExec == 3
MaxTemplateLen == 4

----------------------------------------------------------------------------
(* Python built-ins used by the source *)

Min(a, b) == IF a < b THEN a ELSE b

\* zip(a, b): pairs up to the shorter of the two sequences
Zip(a, b) == [i \in 1..Min(Len(a), Len(b)) |-> <<a[i], b[i]>>]

\* range(n): 0, 1, ..., n-1
PyRange(n) == [i \in 1..n |-> i - 1]

\* n * [x]: the list holding x n times
Repeat(n, x) == [i \in 1..n |-> x]

\* d[k] = v on a dict: a new key is added, an existing key is overwritten
DictSet(d, k, v) == [x \in (DOMAIN d) \cup {k} |-> IF x = k THEN v ELSE d[x]]

EmptyDict == [x \in {} |-> x]

Digits == <<"0", "1", "2", "3", "4", "5", "6", "7", "8", "9">>

\* str(n) of a non-negative integer: its decimal digits
RECURSIVE Str(_)
Str(n) == IF n < 10 THEN <<Digits[n + 1]>>
          ELSE Str(n \div 10) \o <<Digits[(n % 10) + 1]>>

\* s.replace(old, new, 1): only the first occurrence
Replace_FirstOnly(s, old, new) ==
    LET hits == {i \in 1..(Len(s) - Len(old) + 1) : SubSeq(s, i, i + Len(old) - 1) = old}
    IN  IF hits = {} THEN s
        ELSE LET i == CHOOSE h \in hits : \A g \in hits : h <= g
             IN  SubSeq(s, 1, i - 1) \o new \o SubSeq(s, i + Len(old), Len(s))

\* s.replace(old, new), old non-empty: left to right, non-overlapping
RECURSIVE Replace(_, _, _)
Replace(s, old, new) ==
    IF Len(s) < Len(old) THEN s
    ELSE IF SubSeq(s, 1, Len(old)) = old
         THEN new \o Replace(SubSeq(s, Len(old) + 1, Len(s)), old, new)
         ELSE <<s[1]>> \o Replace(Tail(s), old, new)

\* itertools.product(*axes_coords): tuples in lexicographic order
RECURSIVE Product(_)
Product(cs) ==
    IF cs = <<>> THEN << <<>> >>
    ELSE LET rest == Product(Tail(cs))
             h == Head(cs)
             n == Len(rest)
         IN  [k \in 1..(Len(h) * n) |->
                 <<h[((k - 1) \div n) + 1]>> \o rest[((k - 1) % n) + 1]]

RECURSIVE Prod(_)
Prod(s) == IF s = <<>> THEN 1 ELSE Head(s) * Prod(Tail(s))

----------------------------------------------------------------------------
(* get_dask_arrays, lines 68-127: the body of the loop for one tileset *)

Null == <<>>
IsNone(e) == e = Null
IntOf(e) == e[1]

STR_dash == <<"-">>
STR_untiled == <<"-", "u", "n", "t", "i", "l", "e", "d">>
STR_tiling == <<"_", "t", "i", "l", "i", "n", "g">>

\* the names of all the axes, the test for None left out
RECURSIVE AxesStr_AllAxesFrom(_, _)
AxesStr_AllAxesFrom(pairs, i) ==
    IF i > Len(pairs) THEN <<>> ELSE pairs[i][2] \o AxesStr_AllAxesFrom(pairs, i + 1)

AxesStr_AllAxes(tile_shape, p_axis_names) ==
    AxesStr_AllAxesFrom(Zip(tile_shape, p_axis_names), 1)

\* lines 74-77: names of the axes whose tile size is not None, concatenated
RECURSIVE AxesStrFrom(_, _)
AxesStrFrom(pairs, i) ==
    IF i > Len(pairs) THEN <<>>
    ELSE (IF ~IsNone(pairs[i][1]) THEN pairs[i][2] ELSE <<>>)
         \o AxesStrFrom(pairs, i + 1)

AxesStr(tile_shape, p_axis_names) == AxesStrFrom(Zip(tile_shape, p_axis_names), 1)

\* lines 78-83
DaKey(param, tile_shape, p_axis_names) ==
    LET axes_str == AxesStr(tile_shape, p_axis_names)
    IN  IF Len(axes_str) = 0
        THEN param \o STR_untiled
        ELSE param \o STR_dash \o axes_str \o STR_tiling

\* the full tiles alone, the final partial tile left out
AxisTiles_NoFinal(axis_size, axis_tile_entry) ==
    LET axis_tile_size == IF IsNone(axis_tile_entry) THEN axis_size
                          ELSE IntOf(axis_tile_entry)
    IN  Repeat(axis_size \div axis_tile_size, axis_tile_size)

\* None taken as a tile size of one
AxisTiles_NoneAsOne(axis_size, axis_tile_entry) ==
    LET axis_tile_size == IF IsNone(axis_tile_entry) THEN 1 ELSE IntOf(axis_tile_entry)
        final_tile == axis_size % axis_tile_size
        axis_tiles == Repeat(axis_size \div axis_tile_size, axis_tile_size)
    IN  IF final_tile > 0 THEN axis_tiles \o <<final_tile>> ELSE axis_tiles

\* lines 99-109: the tile sizes along one axis (Python 2: / on ints floors)
AxisTiles(axis_size, axis_tile_entry) ==
    LET axis_tile_size == IF IsNone(axis_tile_entry) THEN axis_size
                          ELSE IntOf(axis_tile_entry)
        n_full_tiles == axis_size \div axis_tile_size
        final_tile == axis_size % axis_tile_size
        axis_tiles == Repeat(n_full_tiles, axis_tile_size)
    IN  IF final_tile > 0 THEN axis_tiles \o <<final_tile>> ELSE axis_tiles

\* lines 92-112: axes_tile_sizes
AxesTileSizes(p_shape, tile_shape) ==
    LET pairs == Zip(p_shape, tile_shape)
    IN  [i \in 1..Len(pairs) |-> AxisTiles(pairs[i][1], pairs[i][2])]

\* coordinates counted from one
AxesCoords_OneBased(axes_tile_sizes) ==
    [i \in 1..Len(axes_tile_sizes) |-> [j \in 1..Len(axes_tile_sizes[i]) |-> j]]

\* line 112: axes_coords
AxesCoords(axes_tile_sizes) ==
    [i \in 1..Len(axes_tile_sizes) |-> PyRange(Len(axes_tile_sizes[i]))]

\* line 124: the value stored for one coordinate
TaskFor(url_template, p_axis_names, coord) ==
    [func |-> "get_tile", url_template |-> url_template,
     axis_names |-> p_axis_names, tile_indices |-> coord]

\* line 124: the key stored for one coordinate
TaskKey(param, coord) == <<param>> \o coord

\* lines 115-124: the loop filling dask_graph; of two coordinates giving the
\* same key the later one would stay
DaskGraph(param, url_template, p_axis_names, axes_coords) ==
    LET tile_coords == Product(axes_coords)
        n == Len(tile_coords)
        last(k) == CHOOSE i \in 1..n :
                       /\ TaskKey(param, tile_coords[i]) = k
                       /\ \A j \in (i + 1)..n : TaskKey(param, tile_coords[j]) # k
    IN  [k \in {TaskKey(param, tile_coords[i]) : i \in 1..n} |->
            TaskFor(url_template, p_axis_names, tile_coords[last(k)])]

\* line 127: da.Array(dask_graph, param, tuple(axes_tile_sizes)) keeps its arguments
DaArray(dask_graph, name, chunks) ==
    [dask |-> dask_graph, name |-> name, chunks |-> chunks]

\* lines 58-68: the (param, tileset index) pairs in the order the loops visit them
RECURSIVE PairsFrom(_, _)
PairsFrom(cov, p) ==
    IF p > Len(cov.parameters) THEN <<>>
    ELSE LET param == cov.parameters[p]
         IN  [t \in 1..Len(cov.ranges[param].tileSets) |-> <<param, t>>]
             \o PairsFrom(cov, p + 1)

Pairs(cov) == PairsFrom(cov, 1)

\* the array built for one pair, lines 70-127
ArrayOf(cov, pair) ==
    LET p_range == cov.ranges[pair[1]]
        p_tileset == p_range.tileSets[pair[2]]
        axes_tile_sizes == AxesTileSizes(p_range.shape, p_tileset.tileShape)
    IN  DaArray(DaskGraph(pair[1], p_tileset.urlTemplate, p_range.axisNames,
                          AxesCoords(axes_tile_sizes)),
                pair[1], axes_tile_sizes)

KeyOf(cov, pair) ==
    LET p_range == cov.ranges[pair[1]]
    IN  DaKey(pair[1], p_range.tileSets[pair[2]].tileShape, p_range.axisNames)

----------------------------------------------------------------------------
(* get_tile, lines 130-154 *)

STR_lbrace == <<"{">>
STR_rbrace == <<"}">>

\* lines 150-151: the loop of replacements
RECURSIVE TileUrlFrom(_, _, _)
TileUrlFrom(url_template, pairs, i) ==
    IF i > Len(pairs) THEN url_template
    ELSE TileUrlFrom(Replace(url_template,
                             STR_lbrace \o pairs[i][1] \o STR_rbrace,
                             Str(pairs[i][2])),
                     pairs, i + 1)

TileUrl(url_template, axis_names, tile_indices) ==
    TileUrlFrom(url_template, Zip(axis_names, tile_indices), 1)

\* numpy reshape of a flat list, row-major
RECURSIVE Reshape(_, _)
Reshape(values, shape) ==
    IF Len(shape) <= 1 THEN values
    ELSE LET step == Len(values) \div shape[1]
         IN  [i \in 1..shape[1] |->
                 Reshape(SubSeq(values, (i - 1) * step + 1, i * step), Tail(shape))]

\* lines 152-153 on a response of the remote end
DecodeTile(response) ==
    IF response.status # "ok"
    THEN [kind |-> "error", error |-> response.status, block |-> <<>>]
    ELSE IF Prod(response.shape) # Len(response.values)
         THEN [kind |-> "error", error |-> "shape_mismatch", block |-> <<>>]
         ELSE [kind |-> "block", error |-> "",
               block |-> Reshape(response.values, response.shape)]

\* a second request after the first
TileFetches_Retry(url) == <<url, url>>

\* line 152: the requests one call makes
TileFetches(url) == <<url>>

\* a call failing once any earlier call has failed
GetTile_Poisoned(url_template, axis_names, tile_indices, srv) ==
    LET url == TileUrl(url_template, axis_names, tile_indices)
    IN  [url |-> url, fetches |-> TileFetches(url),
         outcome |-> IF \E i \in 1..Len(executions) : executions[i].outcome.kind = "error"
                     THEN DecodeTile([status |-> "transport_error", values |-> <<>>,
                                      shape |-> <<>>])
                     ELSE DecodeTile(srv[url])]

\* lines 150-154: the requests made and the value returned or error raised
GetTile(url_template, axis_names, tile_indices, srv) ==
    LET url == TileUrl(url_template, axis_names, tile_indices)
    IN  [url |-> url, fetches |-> TileFetches(url), outcome |-> DecodeTile(srv[url])]

----------------------------------------------------------------------------
(* The remote end: what get_data (lines 13-18) can come back with *)

Location == <<"d">>

TransportError == [status |-> "transport_error", values |-> <<>>, shape |-> <<>>]

Responses ==
    { TransportError,
      [status |-> "ok", values |-> <<1, 2, 3, 4>>, shape |-> <<2, 2>>],
      [status |-> "ok", values |-> <<1, 2, 3>>, shape |-> <<2, 2>>] }

----------------------------------------------------------------------------
(* Actions *)

NoCall == [url_template |-> <<>>, axis_names |-> <<>>, tile_indices |-> <<>>]

\* line 50: the one request get_dask_arrays makes
LoadCoverage ==
    /\ pc = "start"
    /\ fetched' = Append(fetched, Location)
    /\ pc' = "loop"
    /\ idx' = 1
    /\ UNCHANGED <<coverage, dask_arrays, built, server, executions, call>>

\* lines 68-127: one turn of the inner loop
BuildArray ==
    /\ pc = "loop"
    /\ idx <= Len(Pairs(coverage))
    /\ LET pair == Pairs(coverage)[idx]
           da_key == KeyOf(coverage, pair)
           array == ArrayOf(coverage, pair)
       IN  /\ dask_arrays' = DictSet(dask_arrays, da_key, array)
           /\ built' = Append(built, [pair |-> pair, da_key |-> da_key, array |-> array])
    /\ idx' = idx + 1
    /\ UNCHANGED <<coverage, pc, fetched, server, executions, call>>

\* line 128
Return ==
    /\ pc = "loop"
    /\ idx > Len(Pairs(coverage))
    /\ pc' = "done"
    /\ UNCHANGED <<coverage, idx, dask_arrays, built, fetched, server, executions, call>>

\* one get_tile call against the remote end; the answer for a URL is fixed
\* the first time the URL is requested
RunGetTile(array, key, url_template, axis_names, tile_indices) ==
    LET url == TileUrl(url_template, axis_names, tile_indices)
    IN  \E r \in (IF url \in DOMAIN server THEN {server[url]} ELSE Responses) :
            LET srv == DictSet(server, url, r)
                res == GetTile(url_template, axis_names, tile_indices, srv)
            IN  /\ server' = srv
                /\ fetched' = fetched \o res.fetches
                /\ executions' = Append(executions,
                                        [array |-> array, key |-> key, url |-> res.url,
                                         outcome |-> res.outcome])

\* the dask engine runs one task of a returned array (any task, any number of times)
ExecuteTask ==
    /\ pc = "done"
    /\ Len(executions) < MaxExec
    /\ \E a \in DOMAIN dask_arrays :
           \E k \in DOMAIN dask_arrays[a].dask :
               LET task == dask_arrays[a].dask[k]
               IN  RunGetTile(a, k, task.url_template, task.axis_names, task.tile_indices)
    /\ UNCHANGED <<coverage, pc, idx, dask_arrays, built, call>>

\* get_tile called directly, lines 130-154
DirectGetTile ==
    /\ pc = "call"
    /\ RunGetTile(<<>>, <<>>, call.url_template, call.axis_names, call.tile_indices)
    /\ pc' = "called"
    /\ UNCHANGED <<coverage, idx, dask_arrays, built, call>>

----------------------------------------------------------------------------
(* Documents the location can serve *)

FOO == <<"F", "O", "O">>
BAR == <<"B", "A", "R">>

TileEntries == {Null} \cup {<<n>> : n \in 1..MaxTile}

TileSet(tile_shape, url_template) ==
    [tileShape |-> tile_shape, urlTemplate |-> url_template]

RangeOf(axis_names, shape, tile_sets) ==
    [axisNames |-> axis_names, shape |-> shape, tileSets |-> tile_sets]

OneParam(range) == [parameters |-> <<FOO>>, ranges |-> [p \in {FOO} |-> range]]

TwoParams(r1, r2) ==
    [parameters |-> <<FOO, BAR>>,
     ranges |-> [p \in {FOO, BAR} |-> IF p = FOO THEN r1 ELSE r2]]

URL_t == <<"a", "/", "{", "t", "}">>
URL_yx == <<"b", "/", "{", "y", "}", "/", "{", "x", "}">>
URL_yx2 == <<"c", "/", "{", "y", "}", "-", "{", "x", "}">>
URL_all == <<"u">>
URL_tyx == <<"{", "y", "}", "-", "{", "x", "}">>

\* one axis, one tileset: every extent against every tile size
OneAxisDocs ==
    { OneParam(RangeOf(<<<<"t">>>>, <<e>>, <<TileSet(<<ts>>, URL_t)>>)) :
        e \in 1..MaxExtent, ts \in TileEntries }

\* two axes, one tileset
TwoAxisDocs ==
    { OneParam(RangeOf(<<<<"y">>, <<"x">>>>, <<e1, e2>>,
                       <<TileSet(<<t1, t2>>, URL_yx)>>)) :
        e1 \in 1..MaxExtent, e2 \in 1..MaxExtent, t1 \in TileEntries, t2 \in TileEntries }

\* two axes, two tilesets of one parameter
TwoTileSetDocs ==
    { OneParam(RangeOf(<<<<"y">>, <<"x">>>>, <<3, 2>>,
                       <<TileSet(<<t1, t2>>, URL_yx), TileSet(<<t3, t4>>, URL_yx2)>>)) :
        t1 \in TileEntries, t2 \in TileEntries, t3 \in TileEntries, t4 \in TileEntries }

\* two parameters
TwoParamDocs ==
    { TwoParams(RangeOf(<<<<"t">>>>, <<3>>, <<TileSet(<<t1>>, URL_t)>>),
                RangeOf(<<<<"y">>, <<"x">>>>, <<2, 3>>, <<TileSet(<<Null, t2>>, URL_yx)>>)) :
        t1 \in TileEntries, t2 \in TileEntries }

\* the end-to-end example of lines 89-90: 10x11 in tiles of 3x3
ExampleDoc ==
    OneParam(RangeOf(<<<<"y">>, <<"x">>>>, <<10, 11>>, <<TileSet(<<<<3>>, <<3>>>>, URL_yx)>>))

\* the document of the docstring, lines 31-38: keys FOO-yx_tiling, FOO-t_tiling, FOO-untiled
PlaygroundDoc ==
    OneParam(RangeOf(<<<<"t">>, <<"y">>, <<"x">>>>, <<2, 5, 10>>,
                     <<TileSet(<<Null, Null, Null>>, URL_all),
                       TileSet(<<<<1>>, Null, Null>>, URL_t),
                       TileSet(<<Null, <<2>>, <<3>>>>, URL_tyx)>>))

\* a small document with the same three tilings
SmallDoc ==
    OneParam(RangeOf(<<<<"t">>, <<"y">>, <<"x">>>>, <<2, 3, 2>>,
                     <<TileSet(<<Null, Null, Null>>, URL_all),
                       TileSet(<<<<1>>, Null, Null>>, URL_t),
                       TileSet(<<Null, <<2>>, <<2>>>>, URL_tyx)>>))

BuildDocs ==
    OneAxisDocs \cup TwoAxisDocs \cup TwoTileSetDocs \cup TwoParamDocs
        \cup {ExampleDoc, PlaygroundDoc, SmallDoc}

ExecDocs ==
    { OneParam(RangeOf(<<<<"t">>>>, <<3>>, <<TileSet(<<ts>>, URL_t)>>)) :
        ts \in {Null, <<1>>, <<2>>} }
      \cup {SmallDoc}

\* documents breaking the invariant len(axisNames) = len(shape) = len(tileShape)
AxisNameLists == { <<<<"y">>>>, <<<<"y">>, <<"x">>>>, <<<<"t">>, <<"y">>, <<"x">>>> }
ShapeLists == { <<3>>, <<3, 2>>, <<3, 2, 2>> }
TileShapeLists ==
    UNION { [1..n -> {Null, <<2>>}] : n \in 1..3 }

WellFormedRange(r) ==
    /\ Len(r.axisNames) = Len(r.shape)
    /\ \A i \in 1..Len(r.tileSets) : Len(r.tileSets[i].tileShape) = Len(r.shape)

MalformedDocs ==
    { d \in { OneParam(RangeOf(an, sh, <<TileSet(ts, URL_tyx)>>)) :
                an \in AxisNameLists, sh \in ShapeLists, ts \in TileShapeLists } :
        ~WellFormedRange(d.ranges[FOO]) }

----------------------------------------------------------------------------
(* Specifications *)

InitWith(docs) ==
    /\ coverage \in docs
    /\ pc = "start"
    /\ idx = 0
    /\ dask_arrays = EmptyDict
    /\ built = <<>>
    /\ fetched = <<>>
    /\ server = EmptyDict
    /\ executions = <<>>
    /\ call = NoCall

\* direct calls of get_tile: every short template over the alphabet, and the
\* templates of the docstring and of the documentation
TemplateChars == {"{", "}", "x", "y"}

ShortTemplates == UNION { [1..n -> TemplateChars] : n \in 0..MaxTemplateLen }

URL_hxy == <<"h", "t", "t", "p", ":", "/", "/", "h", "/", "{", "x", "}", "/", "{", "y", "}">>
URL_xyz == <<"t", "/", "{", "x", "}", "/", "{", "y", "}", "/", "{", "z", "}">>
URL_zx == <<"{", "z", "}", "/", "{", "x", "}", "/", "{", "x", "}">>
URL_xy_x == <<"{", "x", "y", "}", "{", "x", "}", "{", "y", "}">>

TileCalls ==
    { [url_template |-> t, axis_names |-> an, tile_indices |-> ti] :
        t \in ShortTemplates \cup {URL_hxy, URL_xyz, URL_zx, URL_xy_x, URL_yx},
        an \in { <<<<"x">>, <<"y">>>>, <<<<"y">>, <<"x">>, <<"z">>>>,
                 <<<<"x">>, <<"x">>>>, <<<<"x", "y">>, <<"x">>>> },
        ti \in { <<2, 5>>, <<12, 0, 3>> } }

InitTile ==
    /\ call \in TileCalls
    /\ pc = "call"
    /\ coverage = OneParam(RangeOf(<<>>, <<>>, <<>>))
    /\ idx = 0
    /\ dask_arrays = EmptyDict
    /\ built = <<>>
    /\ fetched = <<>>
    /\ server = EmptyDict
    /\ executions = <<>>

Init == InitWith(ExecDocs)
InitBuild == InitWith(BuildDocs)
InitMalformed == InitWith(MalformedDocs)

Next == LoadCoverage \/ BuildArray \/ Return \/ ExecuteTask
NextBuild == LoadCoverage \/ BuildArray \/ Return

\* get_dask_arrays followed by the engine running tasks
Spec == Init /\ [][Next]_vars
\* get_dask_arrays alone, over every well-formed document of the bounds
SpecBuild == InitBuild /\ [][NextBuild]_vars
\* get_dask_arrays alone, over documents with mismatched lengths
SpecMalformed == InitMalformed /\ [][NextBuild]_vars
\* get_tile called directly
SpecTile == InitTile /\ [][DirectGetTile]_vars

----------------------------------------------------------------------------
(* Vocabulary of the properties *)

RECURSIVE Sum(_)
Sum(s) == IF s = <<>> THEN 0 ELSE Head(s) + Sum(Tail(s))

RECURSIVE Flatten(_)
Flatten(ss) == IF ss = <<>> THEN <<>> ELSE Head(ss) \o Flatten(Tail(ss))

\* the least n with n * t >= e
CeilDiv(e, t) == CHOOSE n \in 0..e : n * t >= e /\ (n - 1) * t < e

RangeOfBuilt(b) == coverage.ranges[b.pair[1]]
TileSetOfBuilt(b) == RangeOfBuilt(b).tileSets[b.pair[2]]
NAxes(b) == Len(RangeOfBuilt(b).axisNames)
Built == {built[i] : i \in DOMAIN built}

\* the coordinates 0 <= i_k < n_k
CoordsWithin(counts) ==
    { c \in [1..Len(counts) -> 0..Sum(counts)] : \A k \in 1..Len(counts) : c[k] < counts[k] }

----------------------------------------------------------------------------
(* C1 *)

ChunksPartition(chunks, e, t) ==
    /\ Sum(chunks) = e
    /\ \A j \in 1..Len(chunks) : chunks[j] <= t /\ chunks[j] >= 1
    /\ \A j \in 1..(Len(chunks) - 1) : chunks[j] = t
    /\ Len(chunks) = CeilDiv(e, t)
    /\ (t >= e => chunks = <<e>>)

\* C1: every split axis of extent E and tile size T gets chunk sizes that sum
\* to E, are all <= T, are all equal to T except possibly the last, and number
\* ceil(E/T); T >= E gives the single chunk [E].
C1_ChunkSizes ==
    \A b \in Built :
        \A i \in 1..NAxes(b) :
            ~IsNone(TileSetOfBuilt(b).tileShape[i]) =>
                ChunksPartition(b.array.chunks[i], RangeOfBuilt(b).shape[i],
                                IntOf(TileSetOfBuilt(b).tileShape[i]))

\* the 10x11 document in 3x3 tiles has been built with chunks (3,3,3,1) and (3,3,3,2)
C1_Witness ==
    /\ pc = "done"
    /\ coverage = ExampleDoc
    /\ built[1].array.chunks = << <<3, 3, 3, 1>>, <<3, 3, 3, 2>> >>

----------------------------------------------------------------------------
(* C2 *)

SplitNames(b) ==
    LET ts == TileSetOfBuilt(b).tileShape
        names == RangeOfBuilt(b).axisNames
        split == SelectSeq([i \in 1..Len(names) |-> i], LAMBDA i : ~IsNone(ts[i]))
    IN  [j \in 1..Len(split) |-> names[split[j]]]

ExpectedKey(b) ==
    IF \A i \in 1..NAxes(b) : IsNone(TileSetOfBuilt(b).tileShape[i])
    THEN b.pair[1] \o STR_untiled
    ELSE b.pair[1] \o STR_dash \o Flatten(SplitNames(b)) \o STR_tiling

\* C2: the result key of a pair is "<parameter>-untiled" when no tileShape
\* entry is an integer, and otherwise "<parameter>-" + the names of the
\* integer-entry axes in axisNames order + "_tiling".
C2_ResultKey == \A b \in Built : b.da_key = ExpectedKey(b)

KEY_yx == FOO \o <<"-", "y", "x">> \o STR_tiling
KEY_t == FOO \o <<"-", "t">> \o STR_tiling
KEY_untiled == FOO \o STR_untiled

\* the document of the docstring gives FOO-yx_tiling, FOO-t_tiling and FOO-untiled
C2_Witness ==
    /\ pc = "done"
    /\ coverage = PlaygroundDoc
    /\ DOMAIN dask_arrays = {KEY_yx, KEY_t, KEY_untiled}
    /\ built[3].da_key = KEY_yx

----------------------------------------------------------------------------
(* C4 *)

ChunkCounts(b) == [k \in 1..Len(b.array.chunks) |-> Len(b.array.chunks[k])]

\* C4: the task graph of a pair has prod(number of chunks per axis) entries,
\* keyed by exactly the tuples (parameter, i_0, ..., i_{n-1}) within bounds,
\* each mapped to (get_tile, the tileset's urlTemplate, the parameter's
\* axisNames, (i_0, ..., i_{n-1})); 10x11 in 3x3 tiles gives 16 entries.
C4_TaskGraph ==
    \A b \in Built :
        LET g == b.array.dask
            param == b.pair[1]
        IN  /\ Cardinality(DOMAIN g) = Prod(ChunkCounts(b))
            /\ DOMAIN g = { <<param>> \o c : c \in CoordsWithin(ChunkCounts(b)) }
            /\ \A k \in DOMAIN g :
                   g[k] = [func |-> "get_tile",
                           url_template |-> TileSetOfBuilt(b).urlTemplate,
                           axis_names |-> RangeOfBuilt(b).axisNames,
                           tile_indices |-> Tail(k)]
            /\ (coverage = ExampleDoc => Cardinality(DOMAIN g) = 16)

\* the 10x11 document has been built and its graph holds the last tile (3, 3)
C4_Witness ==
    /\ pc = "done"
    /\ coverage = ExampleDoc
    /\ Cardinality(DOMAIN built[1].array.dask) = 16
    /\ built[1].array.dask[<<FOO, 3, 3>>].tile_indices = <<3, 3>>

----------------------------------------------------------------------------
(* C5 *)

\* C5: the returned mapping holds one array per (parameter, tileset) pair:
\* as many entries as pairs, each pair's array under that pair's key.
C5_OneArrayPerPair ==
    pc = "done" =>
        /\ Cardinality(DOMAIN dask_arrays) = Len(Pairs(coverage))
        /\ \A b \in Built : dask_arrays[b.da_key] = b.array

----------------------------------------------------------------------------
(* C6 *)

MalformedPair(b) ==
    ~(/\ Len(RangeOfBuilt(b).axisNames) = Len(RangeOfBuilt(b).shape)
      /\ Len(TileSetOfBuilt(b).tileShape) = Len(RangeOfBuilt(b).shape))

\* C6: when the lengths of axisNames, shape and tileShape differ,
\* get_dask_arrays does not return a mapping holding an array for that tileset.
C6_MalformedRaises ==
    pc = "done" => \A b \in Built : MalformedPair(b) => b.da_key \notin DOMAIN dask_arrays

----------------------------------------------------------------------------
(* C7 *)

UrlOfExecution(e) ==
    LET task == dask_arrays[e.array].dask[e.key]
    IN  TileUrl(task.url_template, task.axis_names, task.tile_indices)

\* C7: get_dask_arrays makes exactly one request, of the location, and none
\* of a tile; every later request is the one request of one executed task,
\* for that task's URL.
C7_FetchOnDemand ==
    /\ pc = "start" => fetched = <<>>
    /\ pc # "start" => /\ Len(fetched) = 1 + Len(executions)
                       /\ fetched[1] = Location
    /\ pc # "done" => executions = <<>>
    /\ \A i \in 1..Len(executions) :
           i + 1 <= Len(fetched) => fetched[i + 1] = UrlOfExecution(executions[i])

\* two tasks have run, the first one failing, and three requests were made
C7_Witness ==
    /\ pc = "done"
    /\ Len(executions) = 2
    /\ executions[1].outcome.kind = "error"
    /\ Len(fetched) = 3

----------------------------------------------------------------------------
(* C8 *)

----------------------------------------------------------------------------
(* C9 *)

\* C9: an axis marked null has the single chunk [E] and only chunk index 0
\* in every task; a tileset with every axis null has exactly one task, whose
\* coordinate is all zeros.
C9_UnsplitAxes ==
    \A b \in Built :
        LET ts == TileSetOfBuilt(b).tileShape
            g == b.array.dask
        IN  /\ \A i \in 1..NAxes(b) :
                   IsNone(ts[i]) =>
                       /\ b.array.chunks[i] = <<RangeOfBuilt(b).shape[i]>>
                       /\ \A k \in DOMAIN g : k[i + 1] = 0 /\ g[k].tile_indices[i] = 0
            /\ (\A i \in 1..NAxes(b) : IsNone(ts[i])) =>
                   DOMAIN g = { <<b.pair[1]>> \o [i \in 1..NAxes(b) |-> 0] }

\* the untiled tileset of the docstring's document has the one task (FOO, 0, 0, 0)
C9_Witness ==
    /\ pc = "done"
    /\ coverage = PlaygroundDoc
    /\ built[1].da_key = KEY_untiled
    /\ DOMAIN built[1].array.dask = { <<FOO, 0, 0, 0>> }
    /\ built[2].array.chunks[2] = <<5>>

----------------------------------------------------------------------------
(* C10 *)

\* C10: a task key occurring in the graphs of two returned arrays maps to the
\* same task in both.
C10_KeysIdentifyTasks ==
    pc = "done" =>
        \A a1 \in DOMAIN dask_arrays : \A a2 \in DOMAIN dask_arrays :
            \A k \in (DOMAIN dask_arrays[a1].dask) \cap (DOMAIN dask_arrays[a2].dask) :
                dask_arrays[a1].dask[k] = dask_arrays[a2].dask[k]

----------------------------------------------------------------------------
(* C3 *)

StartsWith(s, prefix) == Len(s) >= Len(prefix) /\ SubSeq(s, 1, Len(prefix)) = prefix

Placeholder(name) == <<"{">> \o name \o <<"}">>

\* one pass over the template: a placeholder of a listed axis becomes the
\* decimal index of the first axis of that name, anything else is copied
RECURSIVE Substituted(_, _, _)
Substituted(s, names, indices) ==
    LET n == Min(Len(names), Len(indices))
        hits == {i \in 1..n : StartsWith(s, Placeholder(names[i]))}
    IN  IF s = <<>> THEN <<>>
        ELSE IF hits # {}
             THEN LET i == CHOOSE h \in hits : \A g \in hits : h <= g
                  IN  Str(indices[i])
                      \o Substituted(SubSeq(s, Len(names[i]) + 3, Len(s)), names, indices)
             ELSE <<s[1]>> \o Substituted(Tail(s), names, indices)

CALL_hxy == [url_template |-> URL_hxy, axis_names |-> <<<<"x">>, <<"y">>>>,
             tile_indices |-> <<2, 5>>]

\* C3: get_tile requests the template with every "{axis}" of a listed axis
\* replaced by the decimal index of that axis, and everything else, other
\* placeholders included, left as it is; "http://h/{x}/{y}" with x, y and
\* 2, 5 gives "http://h/2/5".
C3_TileUrl ==
    pc = "called" =>
        /\ fetched = <<Substituted(call.url_template, call.axis_names, call.tile_indices)>>
        /\ (call = CALL_hxy =>
               fetched = << <<"h", "t", "t", "p", ":", "/", "/", "h", "/", "2", "/", "5">> >>)

\* {x} occurring twice and {z} not listed: both {x} replaced by the two-digit
\* index of x, {z} kept, y without a placeholder changing nothing
C3_Witness ==
    /\ pc = "called"
    /\ call.url_template = URL_zx
    /\ call.axis_names = <<<<"x">>, <<"y">>>>
    /\ call.tile_indices = <<12, 0, 3>>
    /\ fetched = << <<"{", "z", "}", "/", "1", "2", "/", "1", "2">> >>

====
